---------------------------- MODULE Spec2Model ----------------------------
(***************************************************************************)
(* Florence.AI (src/index.js): the WhatsApp webhook handler, the Telegram  *)
(* middleware and handlers, the token economy (idle reward, streak) and    *)
(* the payment-proof verification, as a state machine.                     *)
(*                                                                         *)
(* Time is counted in whole hours since a local midnight.  A Date and its  *)
(* ISO string carry the same instant (toISOString / new Date(iso) is exact *)
(* to the millisecond), so a timestamp field holds the hour it was taken.  *)
(*                                                                         *)
(* Node runs one continuation at a time: the code between two awaits is    *)
(* one atomic step.  A handler is modelled as one action per continuation; *)
(* several handlers may be suspended at an await at the same time.         *)
(* Awaits after which the handler touches no state any more (the send of a *)
(* final notice, the model call followed by the send of its reply) are one *)
(* suspension with the possible outcomes chosen when it resumes.           *)
(*                                                                         *)
(* The two channels share no state: every WhatsApp step leaves the         *)
(* Telegram ledger, markers and handlers unchanged and the other way round *)
(* (WaUnchanged, TgUnchanged).  Spec therefore explores the runs in which  *)
(* all events arrive on one channel, either one; a property of one         *)
(* channel's state that holds in these runs holds in the interleaved runs. *)
(***************************************************************************)
EXTENDS Integers, Sequences, FiniteSets, Bags, TLC

----------------------------------------------------------------------------
(* Program constants *)

WaInitialTokens == 100
TgInitialTokens == 10
RewardHours == 8
RewardTokens == 10
LowBalance == 4
StreakBreakHours == 48
MilestoneDays == 10
StreakBonus == 10
MaxMedia == 5
MediaCost == 2
TextCost == 1
PaymentTokens == 10
MaxWindowHours == 24
HoursPerDay == 24

(* Bounds of the model *)

MaxTime == 50
TickHours == 25
MaxInFlight == 2
MaxDeclarations == 2

WaIds == {"w1"}
TgIds == {"t1"}
BotIds == {"b1"}      \* Telegram senders with ctx.from.is_bot
Senders == TgIds \cup BotIds

Commands == {"/start", "/about", "/payments", "/tokens", "/streak"}

(* The inputs the model draws *)
Bodies == {"/tokens", "/payments", "hello"}
TgCommands == {"/about", "/tokens", "/payments"}
MessageTypes == {"text", "image", "document", "sticker"}
MediaCounts == {1, MaxMedia, MaxMedia + 1}

----------------------------------------------------------------------------
(* State *)

VARIABLES
    now,              \* the wall clock, in hours
    floDb_wa,         \* the WhatsApp ledger: an array of user records
    floDb_tg,         \* the Telegram ledger: a Map from id to user record
    paymentRequests,  \* Map from Telegram id to the time of the last /payments
    waH,              \* the bag of WhatsApp handlers suspended at an await
    tgH,              \* the bag of Telegram handlers suspended at an await
    last,             \* history: what the step just taken did
    pay,              \* history: payment declarations and credits per Telegram id
    rewardLog,        \* history: the calls of SpecReward
    evalLog,          \* history: the calls of the other function-level specifications
    startup           \* the app.listen callback and its call of setWebhookWithRetry

vars == <<now, floDb_wa, floDb_tg, paymentRequests, waH, tgH, last, pay,
          rewardLog, evalLog, startup>>

----------------------------------------------------------------------------
(* RewardPolicy: pure functions of a user record and the current time *)

\* Math.floor(x / y) for y > 0
Floor(x, y) == x \div y

\* now.toDateString(): the local calendar date of an instant
toDateString(t) == t \div HoursPerDay

\* variant: the reward needs more than RewardHours hours
checkAndUpdateTokenRewards_Late(user, t) ==
    LET hoursSinceLastReward == t - user.lastTokenReward
    IN  IF hoursSinceLastReward > RewardHours /\ user.tokens <= LowBalance
        THEN LET rewardCount == Floor(hoursSinceLastReward, RewardHours)
                 tokensAwarded == rewardCount * RewardTokens
             IN  [user |-> [user EXCEPT !.tokens = @ + tokensAwarded,
                                        !.lastTokenReward = t],
                  tokensAwarded |-> tokensAwarded]
        ELSE [user |-> user, tokensAwarded |-> 0]

\* variant: the reward looks at the elapsed time only and does not stamp
\* lastTokenReward
checkAndUpdateTokenRewards_NoStamp(user, t) ==
    LET hoursSinceLastReward == t - user.lastTokenReward
    IN  IF hoursSinceLastReward >= RewardHours
        THEN LET rewardCount == Floor(hoursSinceLastReward, RewardHours)
                 tokensAwarded == rewardCount * RewardTokens
             IN  [user |-> [user EXCEPT !.tokens = @ + tokensAwarded],
                  tokensAwarded |-> tokensAwarded]
        ELSE [user |-> user, tokensAwarded |-> 0]

checkAndUpdateTokenRewards(user, t) ==
    LET hoursSinceLastReward == t - user.lastTokenReward
    IN  IF hoursSinceLastReward >= RewardHours /\ user.tokens <= LowBalance
        THEN LET rewardCount == Floor(hoursSinceLastReward, RewardHours)
                 tokensAwarded == rewardCount * RewardTokens
             IN  [user |-> [user EXCEPT !.tokens = @ + tokensAwarded,
                                        !.lastTokenReward = t],
                  tokensAwarded |-> tokensAwarded]
        ELSE [user |-> user, tokensAwarded |-> 0]

\* variant: the break does not return; the date test runs after the reset
checkAndUpdateStreak_FallThrough(user, t) ==
    LET broken == t - user.lastActivity > StreakBreakHours
        u0 == IF broken THEN [user EXCEPT !.streak = 0] ELSE user
    IN  IF toDateString(t) # toDateString(u0.streakDate)
        THEN LET u1 == [u0 EXCEPT !.streak = @ + 1, !.streakDate = t]
             IN  IF u1.streak % MilestoneDays = 0
                 THEN [user |-> [u1 EXCEPT !.tokens = @ + StreakBonus],
                       streakBroken |-> broken, streakReward |-> StreakBonus]
                 ELSE [user |-> u1, streakBroken |-> broken, streakReward |-> 0]
        ELSE [user |-> [u0 EXCEPT !.streakDate = IF broken THEN t ELSE @],
              streakBroken |-> broken, streakReward |-> 0]

\* variant: a new day counts twice
checkAndUpdateStreak_Twice(user, t) ==
    IF t - user.lastActivity > StreakBreakHours
    THEN [user |-> [user EXCEPT !.streak = 0, !.streakDate = t],
          streakBroken |-> TRUE, streakReward |-> 0]
    ELSE IF toDateString(t) # toDateString(user.streakDate)
         THEN LET u1 == [user EXCEPT !.streak = @ + 2, !.streakDate = t]
              IN  IF u1.streak % MilestoneDays = 0
                  THEN [user |-> [u1 EXCEPT !.tokens = @ + StreakBonus],
                        streakBroken |-> FALSE, streakReward |-> StreakBonus]
                  ELSE [user |-> u1, streakBroken |-> FALSE, streakReward |-> 0]
         ELSE [user |-> user, streakBroken |-> FALSE, streakReward |-> 0]

\* variant: the milestone is tested on the streak before the increment
checkAndUpdateStreak_OldStreak(user, t) ==
    IF t - user.lastActivity > StreakBreakHours
    THEN [user |-> [user EXCEPT !.streak = 0, !.streakDate = t],
          streakBroken |-> TRUE, streakReward |-> 0]
    ELSE IF toDateString(t) # toDateString(user.streakDate)
         THEN LET u1 == [user EXCEPT !.streak = @ + 1, !.streakDate = t]
              IN  IF user.streak % MilestoneDays = 0
                  THEN [user |-> [u1 EXCEPT !.tokens = @ + StreakBonus],
                        streakBroken |-> FALSE, streakReward |-> StreakBonus]
                  ELSE [user |-> u1, streakBroken |-> FALSE, streakReward |-> 0]
         ELSE [user |-> user, streakBroken |-> FALSE, streakReward |-> 0]

checkAndUpdateStreak(user, t) ==
    IF t - user.lastActivity > StreakBreakHours
    THEN [user |-> [user EXCEPT !.streak = 0, !.streakDate = t],
          streakBroken |-> TRUE, streakReward |-> 0]
    ELSE IF toDateString(t) # toDateString(user.streakDate)
         THEN LET u1 == [user EXCEPT !.streak = @ + 1, !.streakDate = t]
              IN  IF u1.streak % MilestoneDays = 0
                  THEN [user |-> [u1 EXCEPT !.tokens = @ + StreakBonus],
                        streakBroken |-> FALSE, streakReward |-> StreakBonus]
                  ELSE [user |-> u1, streakBroken |-> FALSE, streakReward |-> 0]
         ELSE [user |-> user, streakBroken |-> FALSE, streakReward |-> 0]

updateUserActivity(user, t) == [user EXCEPT !.lastActivity = t]

----------------------------------------------------------------------------
(* UserLedger of the WhatsApp channel *)

\* variant: every sender is taken for a new user
isNewUser_Always(db, WaId) == TRUE

\* lines 76-78
isNewUser(db, WaId) ==
    {i \in 1..Len(db) : db[i].WaId = WaId} = {}

addUser_wa(db, WaId, tokens, streak, t) ==
    Append(db, [WaId |-> WaId, tokens |-> tokens, streak |-> streak,
                lastTokenReward |-> t, lastActivity |-> t, streakDate |-> t])

\* the index of the record Array.find returns (the first match)
IndexOf_wa(db, WaId) ==
    CHOOSE i \in 1..Len(db) :
        /\ db[i].WaId = WaId
        /\ \A j \in 1..(i - 1) : db[j].WaId # WaId

getUser_wa(db, WaId) == db[IndexOf_wa(db, WaId)]

\* a write through the object reference getUser_wa returned
PutUser_wa(db, WaId, user) == [db EXCEPT ![IndexOf_wa(db, WaId)] = user]


----------------------------------------------------------------------------
(* History records.  `last` says what the step just taken did: for which   *)
(* kind of event it ran, with how many media items, what idle reward the   *)
(* handler was granted, and how the step left the handler ("sending",      *)
(* "calling", "fetching": suspended at an await).                          *)

\* the server is not being started
NoStartup ==
    [pc |-> "off", maxRetries |-> 0, initialDelay |-> 0, attempt |-> 0,
     failed |-> 0, delay |-> 0, waited |-> <<>>, returned |-> "-",
     polling |-> FALSE]

NoReport == [ch |-> "-", id |-> "-", ev |-> "-", n |-> 0, res |-> "-", granted |-> 0]

IdleWa ==
    [pc |-> "idle", WaId |-> "-", MessageType |-> "-", Body |-> "-",
     NumMedia |-> 0, granted |-> 0, cost |-> 0]

\* what kind of event a WhatsApp request is, as the switch on Body sees it
Kind_wa(s) ==
    IF s.MessageType = "-" THEN "-"
    ELSE IF s.Body \in Commands THEN "command"
    ELSE IF s.MessageType \in {"image", "document"} THEN "media"
    ELSE IF s.MessageType = "text" THEN "text"
    ELSE "other"

Report_wa(s, res) ==
    [ch |-> "wa", id |-> s.WaId, ev |-> Kind_wa(s), n |-> s.NumMedia,
     res |-> res, granted |-> s.granted]

\* the handlers in flight
Put(H, s) == IF s.pc = "idle" THEN H ELSE H (+) SetToBag({s})
Take(H, s) == H (-) SetToBag({s})
InFlight(H) == BagToSet(H)
HasFree(H) == BagCardinality(H) < MaxInFlight

\* the handler is over: res.status(200) or the catch block's res.status(500)
Finish_wa(db, s, res) ==
    [db |-> db, slot |-> IdleWa, last |-> Report_wa(s, res)]

\* the handler is suspended at an await.  After the welcome and after the
\* spend it reads none of the request's fields any more: they are dropped.
Await_wa(db, s, pc) ==
    [db |-> db,
     slot |-> IF pc \in {"welcome", "model"}
              THEN [IdleWa EXCEPT !.pc = pc, !.WaId = s.WaId, !.cost = s.cost]
              ELSE [s EXCEPT !.pc = pc],
     last |-> Report_wa(s, IF pc = "model" THEN "calling" ELSE "sending")]

----------------------------------------------------------------------------
(* app.post('/whatsapp'): the continuations of one request *)

\* variant: a request with too many media items is charged before it is
\* refused
WaSpend_Charge(db, s) ==
    LET user == getUser_wa(db, s.WaId)
        charged == PutUser_wa(db, s.WaId, [user EXCEPT !.tokens = @ - MediaCost])
    IN  IF s.MessageType \in {"image", "document"}
        THEN IF s.NumMedia > MaxMedia
             THEN Finish_wa(charged, s, "refused_media")
             ELSE Await_wa(charged, [s EXCEPT !.cost = MediaCost], "model")
        ELSE IF s.MessageType = "text"
        THEN Await_wa(PutUser_wa(db, s.WaId,
                                 [user EXCEPT !.tokens = @ - TextCost]),
                      [s EXCEPT !.cost = TextCost], "model")
        ELSE Finish_wa(db, s, "info")

\* lines 441-470: the spend and the call of the model
WaSpend(db, s) ==
    LET user == getUser_wa(db, s.WaId)
    IN  IF s.MessageType \in {"image", "document"}
        THEN IF s.NumMedia > MaxMedia
             THEN Finish_wa(db, s, "refused_media")
             ELSE Await_wa(PutUser_wa(db, s.WaId,
                                      [user EXCEPT !.tokens = @ - MediaCost]),
                           [s EXCEPT !.cost = MediaCost], "model")
        ELSE IF s.MessageType = "text"
        THEN Await_wa(PutUser_wa(db, s.WaId,
                                 [user EXCEPT !.tokens = @ - TextCost]),
                      [s EXCEPT !.cost = TextCost], "model")
        ELSE Finish_wa(db, s, "info")

\* lines 419-439: the default case up to the streak notice
WaPrompt(db, s, t) ==
    LET user == getUser_wa(db, s.WaId)
    IN  IF user.tokens <= 0
        THEN Finish_wa(db, s, "refused_tokens")
        ELSE LET r == checkAndUpdateStreak(updateUserActivity(user, t), t)
                 db1 == PutUser_wa(db, s.WaId, r.user)
             IN  IF r.streakReward > 0
                 THEN Await_wa(db1, s, "streakmsg")
                 ELSE WaSpend(db1, s)

\* lines 372-471: switch (Body)
WaSwitch(db, s, t) ==
    IF s.Body \in Commands THEN Finish_wa(db, s, "info") ELSE WaPrompt(db, s, t)

\* lines 345-370: the request arrives; runs to the first await
WaArrive(db, s, t) ==
    IF isNewUser(db, s.WaId)
    THEN [Await_wa(addUser_wa(db, s.WaId, WaInitialTokens, 0, t), s, "welcome")
             EXCEPT !.last.ev = "first"]
    ELSE LET user == getUser_wa(db, s.WaId)
             r == checkAndUpdateTokenRewards(user, t)
         IN  IF r.tokensAwarded > 0
             THEN Await_wa(PutUser_wa(db, s.WaId, r.user),
                           [s EXCEPT !.granted = r.tokensAwarded], "rewardmsg")
             ELSE WaSwitch(db, s, t)

WaUnchanged == UNCHANGED <<floDb_wa, waH>>
TgUnchanged == UNCHANGED <<floDb_tg, paymentRequests, tgH, pay>>

WaStep(H, r) ==
    /\ floDb_wa' = r.db
    /\ waH' = Put(H, r.slot)
    /\ last' = r.last
    /\ UNCHANGED <<now, rewardLog, evalLog, startup>>
    /\ TgUnchanged

WaReceive(WaId, MessageType, Body, NumMedia) ==
    /\ HasFree(waH)
    /\ WaStep(waH,
              WaArrive(floDb_wa,
                       [IdleWa EXCEPT !.WaId = WaId, !.MessageType = MessageType,
                                      !.Body = Body, !.NumMedia = NumMedia],
                       now))

\* lines 353-357: the three sends of a first contact return (or one throws)
WaWelcomed(s, ok) ==
    /\ s.pc = "welcome"
    /\ WaStep(Take(waH, s),
              Finish_wa(floDb_wa, s, IF ok THEN "welcomed" ELSE "aborted"))

\* lines 366-370 and 434-439: the send of a reward or streak notice returns
\* (or throws, which ends the request in the catch block of line 475)
WaNoticeSent(s, ok) ==
    /\ s.pc \in {"rewardmsg", "streakmsg"}
    /\ WaStep(Take(waH, s),
              IF ~ok THEN Finish_wa(floDb_wa, s, "aborted")
              ELSE IF s.pc = "rewardmsg" THEN WaSwitch(floDb_wa, s, now)
              ELSE WaSpend(floDb_wa, s))

\* lines 475-478: the catch block of app.post('/whatsapp')
WaModelCatch(db, s) == db

\* lines 457-458, 462-463 and 475-478: the model call and the send of its
\* reply return ("ok"), or one of them throws ("failed")
WaModelDone(s, outcome) ==
    /\ s.pc = "model"
    /\ WaStep(Take(waH, s),
              IF outcome = "ok" THEN Finish_wa(floDb_wa, s, "ok")
              ELSE Finish_wa(WaModelCatch(floDb_wa, s), s, "failed"))

----------------------------------------------------------------------------
(* PaymentProofVerifier.  The text pdf-parse extracts is a set of words    *)
(* and the calendar days its date-like substrings name; a date string      *)
(* parses to the local midnight of its day.                                *)

Categories == <<"payment", "platform", "amount", "identifier">>

\* variant: the identifier has to be spelled out
requiredKeywords_NoFlo(category) ==
    CASE category = "payment" -> {"payment", "paid", "transaction"}
      [] category = "platform" -> {"flutterwave", "flutter", "wave"}
      [] category = "amount" -> {"1000", "1,000", "ngn1000", "ngn1,000"}
      [] category = "identifier" -> {"florence"}

requiredKeywords(category) ==
    CASE category = "payment" -> {"payment", "paid", "transaction"}
      [] category = "platform" -> {"flutterwave", "flutter", "wave"}
      [] category = "amount" -> {"1000", "1,000", "ngn1000", "ngn1,000"}
      [] category = "identifier" -> {"florence", "flo"}

\* String.prototype.includes on the words of the model's documents:
\* the pairs <<keyword, word>> with keyword a substring of word
SubstringPairs ==
    {<<"payment", "payment">>, <<"paid", "paid">>,
     <<"flutterwave", "flutterwave">>, <<"flutter", "flutterwave">>,
     <<"wave", "flutterwave">>, <<"wave", "wave">>,
     <<"1000", "ngn1000">>, <<"ngn1000", "ngn1000">>, <<"1000", "1000">>,
     <<"1,000", "1,000">>,
     <<"florence", "florence">>, <<"flo", "florence">>, <<"flo", "flow">>}

\* String.prototype.toLowerCase on the words of the model's documents
toLowerCase(w) ==
    CASE w = "Payment" -> "payment"
      [] w = "FLUTTERWAVE" -> "flutterwave"
      [] w = "NGN1000" -> "ngn1000"
      [] w = "Florence" -> "florence"
      [] OTHER -> w

\* line 582: data.text.toLowerCase()
lowerCased(text) == [text EXCEPT !.words = {toLowerCase(w) : w \in @}]

includes(text, keyword) == \E w \in text.words : <<keyword, w>> \in SubstringPairs

RECURSIVE missingFrom(_, _)
missingFrom(text, i) ==
    IF i > Len(Categories) THEN <<>>
    ELSE LET found == \E k \in requiredKeywords(Categories[i]) : includes(text, k)
         IN  (IF found THEN <<>> ELSE <<Categories[i]>>) \o missingFrom(text, i + 1)

missingCategories(text) == missingFrom(text, 1)

\* variant: the earliest date is taken
MaxOf_Earliest(S) == CHOOSE x \in S : \A y \in S : x <= y

\* Math.max over the parsed dates
MaxOf(S) == CHOOSE x \in S : \A y \in S : y <= x

Abs(x) == IF x < 0 THEN -x ELSE x

\* variant: the payload is parsed whatever it is
verifyPaymentProof_AnyPayload(pdfBuffer, requestTimestamp) ==
    IF ~pdfBuffer.parses
    THEN [valid |-> FALSE, reason |-> "Error processing PDF"]
    ELSE LET text == lowerCased(pdfBuffer.text)
         IN  IF missingCategories(text) # <<>>
             THEN [valid |-> FALSE, reason |-> "Missing required information",
                   missing |-> missingCategories(text)]
             ELSE IF text.days = {}
             THEN [valid |-> FALSE, reason |-> "No valid date found in payment proof"]
             ELSE LET mostRecentDate == MaxOf({d * HoursPerDay : d \in text.days})
                      timeDifference == Abs(mostRecentDate - requestTimestamp)
                  IN  IF timeDifference > MaxWindowHours
                      THEN [valid |-> FALSE,
                            reason |-> "Payment date is outside acceptable timeframe"]
                      ELSE [valid |-> TRUE, date |-> mostRecentDate,
                            details |-> [amount |-> "1000 NGN",
                                         platform |-> "Flutterwave"]]

verifyPaymentProof(pdfBuffer, requestTimestamp) ==
    IF ~pdfBuffer.isBuffer
    THEN [valid |-> FALSE, reason |-> "Invalid PDF data provided"]
    ELSE IF ~pdfBuffer.parses
    THEN [valid |-> FALSE, reason |-> "Error processing PDF"]
    ELSE LET text == lowerCased(pdfBuffer.text)
         IN  IF missingCategories(text) # <<>>
             THEN [valid |-> FALSE, reason |-> "Missing required information",
                   missing |-> missingCategories(text)]
             ELSE IF text.days = {}
             THEN [valid |-> FALSE, reason |-> "No valid date found in payment proof"]
             ELSE LET mostRecentDate == MaxOf({d * HoursPerDay : d \in text.days})
                      timeDifference == Abs(mostRecentDate - requestTimestamp)
                  IN  IF timeDifference > MaxWindowHours
                      THEN [valid |-> FALSE,
                            reason |-> "Payment date is outside acceptable timeframe"]
                      ELSE [valid |-> TRUE, date |-> mostRecentDate,
                            details |-> [amount |-> "1000 NGN",
                                         platform |-> "Flutterwave"]]

\* the documents a Telegram user uploads in the model
Receipt(day) ==
    [isBuffer |-> TRUE, parses |-> TRUE,
     text |-> [words |-> {"payment", "flutterwave", "ngn1000", "florence"},
               days |-> {day}]]

Uploads ==
    {Receipt(0),
     [isBuffer |-> TRUE, parses |-> TRUE,
      text |-> [words |-> {"payment", "flutterwave", "ngn1000"}, days |-> {0}]]}

NoUpload == [isBuffer |-> FALSE, parses |-> FALSE,
             text |-> [words |-> {}, days |-> {}]]

MimeTypes == {"application/pdf", "image/png"}

----------------------------------------------------------------------------
(* Telegram: ledger, middleware and handlers *)

IdleTg ==
    [pc |-> "idle", id |-> "-", ev |-> "-", n |-> 0, cost |-> 0, doc |-> NoUpload,
     requestTimestamp |-> 0, declNo |-> 0]

NoPay == [made |-> 0, credits |-> <<>>]

\* Map.has, Map.set and Map.delete
Has(map, key) == key \in DOMAIN map

MapSet(map, key, value) ==
    [k \in DOMAIN map \cup {key} |-> IF k = key THEN value ELSE map[k]]

MapDelete(map, key) == [k \in DOMAIN map \ {key} |-> map[k]]

addUser_tg(db, id, t) ==
    MapSet(db, id, [id |-> id, streak |-> 0, tokens |-> TgInitialTokens,
                    lastActive |-> t])

\* lines 682-695: bot.use
Middleware(db, id, is_bot, t) ==
    IF is_bot THEN db
    ELSE LET db1 == IF Has(db, id) THEN db ELSE addUser_tg(db, id, t)
         IN  MapSet(db1, id, [db1[id] EXCEPT !.lastActive = t])

Report_tg(s, res) ==
    [ch |-> "tg", id |-> s.id, ev |-> s.ev, n |-> s.n, res |-> res, granted |-> 0]

\* variant: /payments keeps the marker the user already has
TgCommand_KeepMarker(id, is_bot, cmd) ==
    /\ LET db == Middleware(floDb_tg, id, is_bot, now)
           s == [IdleTg EXCEPT !.id = id, !.ev = "command"]
           throws == cmd # "/about" /\ ~Has(db, id)
       IN  /\ floDb_tg' = db
           /\ IF cmd = "/payments" /\ ~throws
              THEN /\ pay[id].made < MaxDeclarations
                   /\ paymentRequests' = IF Has(paymentRequests, id) THEN paymentRequests
                                      ELSE MapSet(paymentRequests, id, now)
                   /\ pay' = [pay EXCEPT ![id] =
                                 [made |-> @.made + 1, credits |-> Append(@.credits, 0)]]
              ELSE UNCHANGED <<paymentRequests, pay>>
           /\ last' = Report_tg(s, IF throws THEN "threw"
                                   ELSE IF cmd = "/payments" THEN "declared"
                                   ELSE "info")
    /\ UNCHANGED <<now, tgH, rewardLog, evalLog, startup>>
    /\ WaUnchanged

\* lines 698-725: the command handlers.  A sender the middleware skipped has
\* no record: user.tokens, user.streak and user.id throw a TypeError.
TgCommand(id, is_bot, cmd) ==
    /\ LET db == Middleware(floDb_tg, id, is_bot, now)
           s == [IdleTg EXCEPT !.id = id, !.ev = "command"]
           throws == cmd # "/about" /\ ~Has(db, id)
       IN  /\ floDb_tg' = db
           /\ IF cmd = "/payments" /\ ~throws
              THEN /\ pay[id].made < MaxDeclarations
                   /\ paymentRequests' = MapSet(paymentRequests, id, now)
                   /\ pay' = [pay EXCEPT ![id] =
                                 [made |-> @.made + 1, credits |-> Append(@.credits, 0)]]
              ELSE UNCHANGED <<paymentRequests, pay>>
           /\ last' = Report_tg(s, IF throws THEN "threw"
                                   ELSE IF cmd = "/payments" THEN "declared"
                                   ELSE "info")
    /\ UNCHANGED <<now, tgH, rewardLog, evalLog, startup>>
    /\ WaUnchanged

\* lines 728-746: bot.on('document') up to its first await
TgDocument(id, is_bot, mime_type, doc) ==
    /\ HasFree(tgH)
    /\ LET db == Middleware(floDb_tg, id, is_bot, now)
           s == [IdleTg EXCEPT !.id = id, !.ev = "document"]
       IN  /\ floDb_tg' = db
           /\ IF mime_type # "application/pdf"
              THEN /\ last' = Report_tg(s, "not_pdf")
                   /\ UNCHANGED tgH
              ELSE IF ~Has(db, id)
              THEN /\ last' = Report_tg(s, "threw")
                   /\ UNCHANGED tgH
              ELSE IF ~Has(paymentRequests, id)
              THEN /\ last' = Report_tg(s, "no_request")
                   /\ UNCHANGED tgH
              ELSE /\ last' = Report_tg(s, "fetching")
                   /\ tgH' = Put(tgH, [s EXCEPT !.pc = "verify", !.doc = doc,
                                          !.requestTimestamp = paymentRequests[id],
                                          !.declNo = pay[id].made])
    /\ UNCHANGED <<now, paymentRequests, pay, rewardLog, evalLog, startup>>
    /\ WaUnchanged

\* variant: the marker is deleted whatever the verification result
DocResult_DeleteAlways(db, requests, s, result) ==
    IF result.valid
    THEN [db |-> MapSet(db, s.id, [db[s.id] EXCEPT !.tokens = @ + PaymentTokens]),
          requests |-> MapDelete(requests, s.id),
          res |-> "credited"]
    ELSE [db |-> db, requests |-> MapDelete(requests, s.id), res |-> "rejected"]

\* variant: a rejected proof is credited as well, its marker kept
DocResult_CreditRejected(db, requests, s, result) ==
    IF result.valid
    THEN [db |-> MapSet(db, s.id, [db[s.id] EXCEPT !.tokens = @ + PaymentTokens]),
          requests |-> MapDelete(requests, s.id),
          res |-> "credited"]
    ELSE [db |-> MapSet(db, s.id, [db[s.id] EXCEPT !.tokens = @ + PaymentTokens]),
          requests |-> requests, res |-> "rejected"]

\* lines 750-757: what the handler does with the verification result
DocResult(db, requests, s, result) ==
    IF result.valid
    THEN [db |-> MapSet(db, s.id, [db[s.id] EXCEPT !.tokens = @ + PaymentTokens]),
          requests |-> MapDelete(requests, s.id),
          res |-> "credited"]
    ELSE [db |-> db, requests |-> requests, res |-> "rejected"]

\* lines 743-761: getFile, the download and verifyPaymentProof return, or
\* getFile or the download throws (fetched = FALSE)
TgDocVerified(s, fetched) ==
    /\ s.pc = "verify"
    /\ LET r == IF fetched
                THEN DocResult(floDb_tg, paymentRequests, s,
                               verifyPaymentProof(s.doc, s.requestTimestamp))
                ELSE [db |-> floDb_tg, requests |-> paymentRequests,
                      res |-> "fetch_error"]
       IN  /\ floDb_tg' = r.db
           /\ paymentRequests' = r.requests
           /\ pay' = IF r.res = "credited"
                     THEN [pay EXCEPT ![s.id].credits[s.declNo] = @ + 1]
                     ELSE pay
           /\ last' = Report_tg(s, r.res)
    /\ tgH' = Take(tgH, s)
    /\ UNCHANGED <<now, rewardLog, evalLog, startup>>
    /\ WaUnchanged

\* line 777
requiredTokens(photos) == IF photos > 0 THEN MediaCost * photos ELSE TextCost

\* lines 765-787: bot.on('message') up to its first await
TgMessage(id, is_bot, photos) ==
    /\ HasFree(tgH)
    /\ LET db == Middleware(floDb_tg, id, is_bot, now)
           s == [IdleTg EXCEPT !.id = id, !.n = photos,
                               !.ev = IF photos > 0 THEN "media" ELSE "text"]
       IN  IF photos > MaxMedia
           THEN /\ floDb_tg' = db
                /\ last' = Report_tg(s, "refused_media")
                /\ UNCHANGED tgH
           ELSE IF ~Has(db, id)
           THEN /\ floDb_tg' = db
                /\ last' = Report_tg(s, "threw")
                /\ UNCHANGED tgH
           ELSE IF db[id].tokens < requiredTokens(photos)
           THEN /\ floDb_tg' = db
                /\ last' = Report_tg(s, "refused_tokens")
                /\ UNCHANGED tgH
           ELSE /\ floDb_tg' = MapSet(db, id, [db[id] EXCEPT
                                   !.tokens = @ - requiredTokens(photos)])
                /\ last' = Report_tg(s, "calling")
                /\ tgH' = Put(tgH, [IdleTg EXCEPT !.pc = "model", !.id = id,
                                                  !.cost = requiredTokens(photos)])
    /\ UNCHANGED <<now, paymentRequests, pay, rewardLog, evalLog, startup>>
    /\ WaUnchanged

\* lines 800-813: the catch block of bot.on('message')
TgModelCatch(db, s) ==
    MapSet(db, s.id, [db[s.id] EXCEPT !.tokens = @ + s.cost])

\* lines 787-813: the notice and the model call return and the reply is sent
\* ("ok"); the notice or the model call throws ("failed"); the reply, which
\* is not awaited, is rejected outside the try block ("undelivered")
TgModelDone(s, outcome) ==
    /\ s.pc = "model"
    /\ floDb_tg' = IF outcome = "failed" THEN TgModelCatch(floDb_tg, s)
                   ELSE floDb_tg
    /\ last' = Report_tg(s, outcome)
    /\ tgH' = Take(tgH, s)
    /\ UNCHANGED <<now, paymentRequests, pay, rewardLog, evalLog, startup>>
    /\ WaUnchanged

----------------------------------------------------------------------------
(* The clock, and the program as a whole *)

Tick ==
    /\ now + TickHours <= MaxTime
    /\ now' = now + TickHours
    /\ last' = NoReport
    /\ UNCHANGED <<rewardLog, evalLog, startup>>
    /\ WaUnchanged
    /\ TgUnchanged

EmptyMap == [k \in {} |-> 0]

Init ==
    /\ now = 0
    /\ floDb_wa = <<>>
    /\ floDb_tg = EmptyMap
    /\ paymentRequests = EmptyMap
    /\ waH = EmptyBag
    /\ tgH = EmptyBag
    /\ last = NoReport
    /\ pay = [id \in Senders |-> NoPay]
    /\ rewardLog = <<>>
    /\ evalLog = <<>>
    /\ startup = NoStartup

\* no event has arrived on the channel yet
WaQuiet == floDb_wa = <<>>
TgQuiet == floDb_tg = EmptyMap /\ last.ch # "tg"

Next ==
    \/ TgQuiet /\ \E id \in WaIds, type \in MessageTypes, body \in Bodies :
          \E n \in (IF type \in {"image", "document"} THEN MediaCounts ELSE {0}) :
             WaReceive(id, type, body, n)
    \/ TgQuiet /\ \E s \in InFlight(waH), ok \in BOOLEAN : WaWelcomed(s, ok)
    \/ TgQuiet /\ \E s \in InFlight(waH), ok \in BOOLEAN : WaNoticeSent(s, ok)
    \/ TgQuiet /\ \E s \in InFlight(waH), outcome \in {"ok", "failed"} :
          WaModelDone(s, outcome)
    \/ WaQuiet /\ \E id \in Senders, cmd \in TgCommands :
          TgCommand(id, id \in BotIds, cmd)
    \/ WaQuiet /\ \E id \in Senders, mime \in MimeTypes, doc \in Uploads :
          TgDocument(id, id \in BotIds, mime, doc)
    \/ WaQuiet /\ \E s \in InFlight(tgH), fetched \in BOOLEAN : TgDocVerified(s, fetched)
    \/ WaQuiet /\ \E id \in Senders, photos \in {0} \cup MediaCounts :
          TgMessage(id, id \in BotIds, photos)
    \/ WaQuiet /\ \E s \in InFlight(tgH), outcome \in {"ok", "failed", "undelivered"} :
          TgModelDone(s, outcome)
    \/ Tick

Spec == Init /\ [][Next]_vars

----------------------------------------------------------------------------
(* checkAndUpdateTokenRewards on its own: a record with a balance drawn    *)
(* from RewardBalances, evaluated up to MaxCalls times while the clock     *)
(* advances hour by hour.  rewardLog keeps each call: the time, the record *)
(* before and after, and the value returned.                               *)

MaxRewardTime == 20
MaxCalls == 3
RewardBalances == (-1)..6

InitReward ==
    /\ now = 0
    /\ \E tokens \in RewardBalances :
          floDb_wa = addUser_wa(<<>>, "w1", tokens, 0, 0)
    /\ floDb_tg = EmptyMap
    /\ paymentRequests = EmptyMap
    /\ waH = EmptyBag
    /\ tgH = EmptyBag
    /\ last = NoReport
    /\ pay = [id \in Senders |-> NoPay]
    /\ rewardLog = <<>>
    /\ evalLog = <<>>
    /\ startup = NoStartup

RewardCall ==
    /\ Len(rewardLog) < MaxCalls
    /\ LET user == getUser_wa(floDb_wa, "w1")
           r == checkAndUpdateTokenRewards(user, now)
       IN  /\ floDb_wa' = PutUser_wa(floDb_wa, "w1", r.user)
           /\ rewardLog' = Append(rewardLog,
                                  [t |-> now, before |-> user, after |-> r.user,
                                   tokensAwarded |-> r.tokensAwarded])
    /\ UNCHANGED <<now, waH, last, evalLog, startup>>
    /\ TgUnchanged

RewardTick ==
    /\ now < MaxRewardTime
    /\ now' = now + 1
    /\ UNCHANGED <<last, rewardLog, evalLog, startup>>
    /\ WaUnchanged
    /\ TgUnchanged

NextReward == RewardCall \/ RewardTick

SpecReward == InitReward /\ [][NextReward]_vars

----------------------------------------------------------------------------
(* checkAndUpdateStreak on its own, and the two evaluations of one message *)
(* in both orders: a record with a balance drawn from StreakBalances and a *)
(* streak drawn from StreakValues, created at hour 0, is evaluated up to   *)
(* MaxEvals times while the clock advances.  evalLog keeps each call.      *)

MaxStreakTime == 80
StreakTickHours == 8
MaxEvals == 2
StreakBalances == {2, 20}
StreakValues == {0, 8, 9, 10, 19}

\* lines 364 and 431: the idle reward, then the streak
EvalRewardThenStreak(user, t) ==
    LET r == checkAndUpdateTokenRewards(user, t)
        q == checkAndUpdateStreak(r.user, t)
    IN  [user |-> q.user, tokensAwarded |-> r.tokensAwarded,
         streakBroken |-> q.streakBroken, streakReward |-> q.streakReward]

\* the same two evaluations in the other order
EvalStreakThenReward(user, t) ==
    LET q == checkAndUpdateStreak(user, t)
        r == checkAndUpdateTokenRewards(q.user, t)
    IN  [user |-> r.user, tokensAwarded |-> r.tokensAwarded,
         streakBroken |-> q.streakBroken, streakReward |-> q.streakReward]

InitStreak ==
    /\ now = 0
    /\ \E tokens \in StreakBalances, streak \in StreakValues :
          floDb_wa = addUser_wa(<<>>, "w1", tokens, streak, 0)
    /\ floDb_tg = EmptyMap
    /\ paymentRequests = EmptyMap
    /\ waH = EmptyBag
    /\ tgH = EmptyBag
    /\ last = NoReport
    /\ pay = [id \in Senders |-> NoPay]
    /\ rewardLog = <<>>
    /\ evalLog = <<>>
    /\ startup = NoStartup

StreakCall ==
    /\ Len(evalLog) < MaxEvals
    /\ LET user == getUser_wa(floDb_wa, "w1")
           r == checkAndUpdateStreak(user, now)
       IN  /\ floDb_wa' = PutUser_wa(floDb_wa, "w1", r.user)
           /\ evalLog' = Append(evalLog,
                                [f |-> "streak", t |-> now, before |-> user,
                                 after |-> r.user,
                                 streakBroken |-> r.streakBroken,
                                 streakReward |-> r.streakReward])
    /\ UNCHANGED <<now, waH, last, rewardLog, startup>>
    /\ TgUnchanged

OrderCall ==
    /\ Len(evalLog) < MaxEvals
    /\ LET user == getUser_wa(floDb_wa, "w1")
           r == EvalRewardThenStreak(user, now)
       IN  /\ floDb_wa' = PutUser_wa(floDb_wa, "w1", r.user)
           /\ evalLog' = Append(evalLog,
                                [f |-> "order", t |-> now, before |-> user,
                                 rewardFirst |-> r,
                                 streakFirst |-> EvalStreakThenReward(user, now)])
    /\ UNCHANGED <<now, waH, last, rewardLog, startup>>
    /\ TgUnchanged

\* line 429: updateUserActivity
StreakTouch ==
    /\ LET user == getUser_wa(floDb_wa, "w1")
       IN  floDb_wa' = PutUser_wa(floDb_wa, "w1", updateUserActivity(user, now))
    /\ UNCHANGED <<now, waH, last, rewardLog, evalLog, startup>>
    /\ TgUnchanged

StreakTick ==
    /\ now + StreakTickHours <= MaxStreakTime
    /\ now' = now + StreakTickHours
    /\ UNCHANGED <<last, rewardLog, evalLog, startup>>
    /\ WaUnchanged
    /\ TgUnchanged

NextStreak == StreakCall \/ OrderCall \/ StreakTouch \/ StreakTick

SpecStreak == InitStreak /\ [][NextStreak]_vars

\* C11: checkAndUpdateStreak on a record whose lastActivity is more than 48
\* hours old sets streak to 0 and streakDate to the time of the call,
\* returns streakBroken = true and streakReward = 0 and changes nothing
\* else, the tokens included, whatever the streak and the dates were.
C11_StreakBreak ==
    \A i \in DOMAIN evalLog :
        LET e == evalLog[i]
        IN  (e.f = "streak" /\ e.t - e.before.lastActivity > 48)
               => /\ e.after = [e.before EXCEPT !.streak = 0, !.streakDate = e.t]
                  /\ e.streakBroken = TRUE
                  /\ e.streakReward = 0

\* a record with streak 9, inactive for more than 48 hours, has been
\* evaluated on a later calendar day
C11_Witness ==
    \E i \in DOMAIN evalLog :
        /\ evalLog[i].f = "streak"
        /\ evalLog[i].before.streak = 9
        /\ evalLog[i].t - evalLog[i].before.lastActivity > 48
        /\ evalLog[i].t \div 24 # evalLog[i].before.streakDate \div 24
        /\ evalLog[i].after.streak = 0

\* C12: checkAndUpdateStreak on a record whose lastActivity is at most 48
\* hours old returns streakBroken = false; on a new calendar day it adds 1
\* to streak, sets streakDate to the time of the call and, exactly when the
\* new streak is a multiple of 10, adds 10 tokens and returns streakReward
\* = 10; on the same calendar day it changes nothing and returns 0.
C12_StreakStep ==
    \A i \in DOMAIN evalLog :
        LET e == evalLog[i]
            stepped == [e.before EXCEPT !.streak = @ + 1, !.streakDate = e.t]
        IN  (e.f = "streak" /\ e.t - e.before.lastActivity <= 48)
               => /\ e.streakBroken = FALSE
                  /\ IF e.t \div 24 # e.before.streakDate \div 24
                     THEN IF \E k \in 1..stepped.streak : stepped.streak = 10 * k
                          THEN /\ e.after = [stepped EXCEPT !.tokens = @ + 10]
                               /\ e.streakReward = 10
                          ELSE /\ e.after = stepped
                               /\ e.streakReward = 0
                     ELSE /\ e.after = e.before
                          /\ e.streakReward = 0

\* a record with streak 9 has reached the milestone on a new day
C12_Witness ==
    \E i \in DOMAIN evalLog :
        /\ evalLog[i].f = "streak"
        /\ evalLog[i].before.streak = 9
        /\ evalLog[i].after.streak = 10
        /\ evalLog[i].streakReward = 10
        /\ evalLog[i].after.tokens = evalLog[i].before.tokens + 10

\* C13: the idle reward followed by the streak evaluation gives the same
\* record and the same awarded amounts as the streak evaluation followed by
\* the idle reward.
C13_OrderInsensitive ==
    \A i \in DOMAIN evalLog :
        evalLog[i].f = "order" => evalLog[i].rewardFirst = evalLog[i].streakFirst

----------------------------------------------------------------------------
(* verifyPaymentProof on its own and under the document handler: user t1   *)
(* has declared a payment at a time drawn from VerifyTimes and a handler    *)
(* of bot.on('document') waits with a payload drawn from VerifyInputs.      *)
(* evalLog keeps the call of verifyPaymentProof on that payload.            *)

VerifyWords == {"Payment", "paid", "FLUTTERWAVE", "NGN1000", "1,000", "Florence", "flow"}
VerifyDays == {0, 1, 3}
VerifyTimes == {0, 10, 48, 49, 96, 97}

VerifyInputs ==
    {[isBuffer |-> b, parses |-> p, text |-> [words |-> W, days |-> D]] :
        b \in BOOLEAN, p \in BOOLEAN, W \in SUBSET VerifyWords, D \in SUBSET VerifyDays}

InitVerify ==
    /\ \E t \in VerifyTimes, doc \in VerifyInputs :
          /\ now = t
          /\ floDb_tg = addUser_tg(EmptyMap, "t1", t)
          /\ paymentRequests = MapSet(EmptyMap, "t1", t)
          /\ tgH = SetToBag({[IdleTg EXCEPT !.pc = "verify", !.id = "t1",
                                            !.ev = "document", !.doc = doc,
                                            !.requestTimestamp = t, !.declNo = 1]})
    /\ pay = [id \in Senders |->
                IF id = "t1" THEN [made |-> 1, credits |-> <<0>>] ELSE NoPay]
    /\ floDb_wa = <<>>
    /\ waH = EmptyBag
    /\ last = NoReport
    /\ rewardLog = <<>>
    /\ evalLog = <<>>
    /\ startup = NoStartup

\* line 748: the call of verifyPaymentProof
VerifyCall ==
    /\ evalLog = <<>>
    /\ \E s \in InFlight(tgH) :
          /\ s.pc = "verify"
          /\ evalLog' = <<[f |-> "verify", pdfBuffer |-> s.doc,
                           requestTimestamp |-> s.requestTimestamp,
                           result |-> verifyPaymentProof(s.doc, s.requestTimestamp)]>>
    /\ UNCHANGED <<now, last, rewardLog, startup>>
    /\ WaUnchanged
    /\ TgUnchanged

NextVerify ==
    \/ VerifyCall
    \/ \E s \in InFlight(tgH), fetched \in BOOLEAN : TgDocVerified(s, fetched)

SpecVerify == InitVerify /\ [][NextVerify]_vars

\* the synonyms of the four keyword categories
Synonyms(category) ==
    CASE category = "payment" -> {"payment", "paid", "transaction"}
      [] category = "platform" -> {"flutterwave", "flutter", "wave"}
      [] category = "amount" -> {"1000", "1,000", "ngn1000", "ngn1,000"}
      [] category = "identifier" -> {"florence", "flo"}

\* the categories none of whose synonyms is a substring of the lower-cased
\* text, in the order payment, platform, amount, identifier
Lacking(text) ==
    SelectSeq(<<"payment", "platform", "amount", "identifier">>,
              LAMBDA c : ~\E k \in Synonyms(c) : includes(lowerCased(text), k))

\* the calls of verifyPaymentProof on a payload whose text was extracted
Extracted == {i \in DOMAIN evalLog : evalLog[i].pdfBuffer.isBuffer
                                     /\ evalLog[i].pdfBuffer.parses}

\* C17: verifyPaymentProof on a text that lacks a keyword category returns
\* valid = false with the reason for missing information and exactly the
\* lacking categories in the order payment, platform, amount, identifier,
\* whatever dates the text has; on a text with all four categories the
\* result is not the one for missing information.
C17_MissingCategories ==
    \A i \in Extracted :
        LET e == evalLog[i]
        IN  IF Lacking(e.pdfBuffer.text) # <<>>
            THEN e.result = [valid |-> FALSE,
                             reason |-> "Missing required information",
                             missing |-> Lacking(e.pdfBuffer.text)]
            ELSE e.result.valid \/ e.result.reason # "Missing required information"

\* a text with the payment and amount keywords and a date inside the window
\* has been refused for its lacking platform and identifier
C17_Witness ==
    \E i \in Extracted :
        /\ evalLog[i].pdfBuffer.text.words = {"Payment", "1,000"}
        /\ evalLog[i].pdfBuffer.text.days = {0}
        /\ evalLog[i].requestTimestamp = 10
        /\ evalLog[i].result.missing = <<"platform", "identifier">>

\* C18: verifyPaymentProof on a text with all four categories refuses when
\* the text has no date; otherwise it takes the latest date of the text and
\* accepts, with that date and the details 1000 NGN and Flutterwave, exactly
\* when that date is at most 24 hours from the request timestamp.
C18_LatestDateWindow ==
    \A i \in Extracted :
        LET e == evalLog[i]
            days == e.pdfBuffer.text.days
        IN  Lacking(e.pdfBuffer.text) = <<>> =>
               IF days = {}
               THEN e.result = [valid |-> FALSE,
                                reason |-> "No valid date found in payment proof"]
               ELSE \E d \in days :
                       /\ \A other \in days : other <= d
                       /\ IF 24 * d - e.requestTimestamp <= 24
                             /\ e.requestTimestamp - 24 * d <= 24
                          THEN e.result =
                                  [valid |-> TRUE, date |-> 24 * d,
                                   details |-> [amount |-> "1000 NGN",
                                                platform |-> "Flutterwave"]]
                          ELSE e.result =
                                  [valid |-> FALSE,
                                   reason |-> "Payment date is outside acceptable timeframe"]

\* a complete text with a date inside the window (day 0, request at hour 10)
\* and a later date outside it (day 3) has been refused
C18_Witness ==
    \E i \in Extracted :
        /\ Lacking(evalLog[i].pdfBuffer.text) = <<>>
        /\ evalLog[i].pdfBuffer.text.days = {0, 3}
        /\ evalLog[i].requestTimestamp = 10
        /\ ~evalLog[i].result.valid

\* C19: verifyPaymentProof on a payload that is absent or no buffer, or whose
\* text extraction throws, returns valid = false with a reason, and the
\* document handler that receives this result ends with a rejection that
\* leaves the ledger and the markers as they are.
C19_FailuresContained ==
    [][/\ \A i \in DOMAIN evalLog' :
             (~evalLog'[i].pdfBuffer.isBuffer \/ ~evalLog'[i].pdfBuffer.parses)
                 => /\ evalLog'[i].result.valid = FALSE
                    /\ evalLog'[i].result.reason
                          \in {"Invalid PDF data provided", "Error processing PDF"}
       /\ \A s \in InFlight(tgH) :
             (/\ s.pc = "verify"
              /\ tgH' = Take(tgH, s)
              /\ last'.res # "fetch_error"
              /\ ~s.doc.isBuffer \/ ~s.doc.parses)
                 => /\ last'.res = "rejected"
                    /\ floDb_tg' = floDb_tg
                    /\ paymentRequests' = paymentRequests
      ]_vars

\* a buffer whose text extraction throws, otherwise a complete receipt, has
\* been verified and rejected; the balance and the marker are as before
C19_Witness ==
    /\ last.res = "rejected"
    /\ \E i \in DOMAIN evalLog :
          /\ evalLog[i].pdfBuffer.isBuffer
          /\ ~evalLog[i].pdfBuffer.parses
          /\ Lacking(evalLog[i].pdfBuffer.text) = <<>>
          /\ evalLog[i].pdfBuffer.text.days = {0}
          /\ evalLog[i].requestTimestamp = 10
    /\ floDb_tg["t1"].tokens = TgInitialTokens
    /\ Has(paymentRequests, "t1")

----------------------------------------------------------------------------
(* The start of the server: the app.listen callback calls                  *)
(* setWebhookWithRetry and, when it returns false, starts long polling.    *)
(* The parameters are drawn from RetryCounts and InitialDelays, which hold *)
(* the defaults the callback uses; every call of setWebhook may fail.      *)

\* line 26: the defaults are maxRetries = 5 and initialDelay = 5000
MaxRetryCount == 5
MaxDelaySeconds == 5
RetryCounts == 1..MaxRetryCount
InitialDelays == {1000 * k : k \in 1..MaxDelaySeconds}

\* line 23: the name setTimeout is bound to the default export of
\* 'timers/promises', the object {setTimeout, setImmediate, setInterval,
\* scheduler}, and it hides the global timer function in the whole module
typeof_setTimeout == "object"

RECURSIVE Pow2(_)
Pow2(n) == IF n <= 0 THEN 1 ELSE 2 * Pow2(n - 1)

InitWebhook ==
    /\ now = 0
    /\ floDb_wa = <<>>
    /\ floDb_tg = EmptyMap
    /\ paymentRequests = EmptyMap
    /\ waH = EmptyBag
    /\ tgH = EmptyBag
    /\ last = NoReport
    /\ pay = [id \in Senders |-> NoPay]
    /\ rewardLog = <<>>
    /\ evalLog = <<>>
    /\ \E maxRetries \in RetryCounts, initialDelay \in InitialDelays :
          startup = [NoStartup EXCEPT !.pc = "listen",
                                      !.maxRetries = maxRetries,
                                      !.initialDelay = initialDelay]

StartupUnchanged ==
    /\ UNCHANGED <<now, last, rewardLog, evalLog>>
    /\ WaUnchanged
    /\ TgUnchanged

\* lines 817-822 and 26-28: the callback calls setWebhookWithRetry, which
\* enters the loop and awaits the first setWebhook
ListenStart ==
    /\ startup.pc = "listen"
    /\ startup' = [startup EXCEPT !.pc = "attempt", !.attempt = 1]
    /\ StartupUnchanged

\* lines 27-45: setWebhook settles.  Resolved: return true.  Rejected at the
\* last attempt: return false.  Rejected before: the delay is computed and
\* setTimeout(delay) is called; a timer is awaited and the loop goes on with
\* the next attempt, or the call throws a TypeError inside the catch block,
\* which rejects the promise of setWebhookWithRetry and, with it, the
\* callback awaiting it at line 822.
WebhookAttempt(ok) ==
    /\ startup.pc = "attempt"
    /\ startup' =
          IF ok
          THEN [startup EXCEPT !.pc = "returned", !.returned = "true"]
          ELSE IF startup.attempt = startup.maxRetries
          THEN [startup EXCEPT !.pc = "returned", !.returned = "false",
                               !.failed = @ + 1]
          ELSE LET delay == startup.initialDelay * Pow2(startup.attempt - 1)
               IN  IF typeof_setTimeout = "function"
                   THEN [startup EXCEPT !.failed = @ + 1, !.delay = delay,
                                        !.waited = Append(@, delay),
                                        !.attempt = @ + 1]
                   ELSE [startup EXCEPT !.pc = "done", !.returned = "threw",
                                        !.failed = @ + 1, !.delay = delay]
    /\ StartupUnchanged

\* lines 822-830: the callback resumes with the value returned
ListenResume ==
    /\ startup.pc = "returned"
    /\ startup' = [startup EXCEPT !.pc = "done",
                                  !.polling = (startup.returned = "false")]
    /\ StartupUnchanged

NextWebhook ==
    \/ ListenStart
    \/ \E ok \in BOOLEAN : WebhookAttempt(ok)
    \/ ListenResume

SpecWebhook == InitWebhook /\ [][NextWebhook]_vars

\* the delays waited after the first k failed attempts
Backoff(initialDelay, k) == [i \in 1..k |-> initialDelay * Pow2(i - 1)]

\* C22: setWebhookWithRetry makes at most maxRetries attempts, returns true
\* at the first attempt that succeeds, waits initialDelay * 2^(k-1) after the
\* k-th failed attempt before the next attempt, returns false after the last
\* attempt fails, and ends in no other way; long polling is started exactly
\* when it returned false.
C22_WebhookRetry ==
    /\ startup.attempt <= startup.maxRetries
    /\ startup.returned = "true" => startup.failed = startup.attempt - 1
    /\ startup.returned = "false" => startup.failed = startup.maxRetries
    /\ startup.pc \in {"attempt", "returned"} =>
          startup.waited = Backoff(startup.initialDelay, startup.attempt - 1)
    /\ startup.pc = "done" => startup.returned \in {"true", "false"}
    /\ startup.pc = "done" => (startup.polling <=> startup.returned = "false")
    /\ startup.pc # "done" => ~startup.polling

----------------------------------------------------------------------------
(* Both channels in one run: the handlers of WhatsApp and of Telegram      *)
(* interleave at their awaits.  The clock stands still, the WhatsApp       *)
(* sender spends at most MaxSpend tokens, and a request is a text prompt,  *)
(* a command or a PDF upload.                                              *)

MaxSpend == 2

WaBudget == \A i \in 1..Len(floDb_wa) : floDb_wa[i].tokens > WaInitialTokens - MaxSpend

NextChannels ==
    \/ WaBudget /\ \E id \in WaIds, body \in Bodies : WaReceive(id, "text", body, 0)
    \/ \E s \in InFlight(waH), ok \in BOOLEAN : WaWelcomed(s, ok)
    \/ \E s \in InFlight(waH), outcome \in {"ok", "failed"} : WaModelDone(s, outcome)
    \/ \E id \in Senders, cmd \in TgCommands : TgCommand(id, id \in BotIds, cmd)
    \/ \E id \in Senders, doc \in Uploads :
          TgDocument(id, id \in BotIds, "application/pdf", doc)
    \/ \E s \in InFlight(tgH), fetched \in BOOLEAN : TgDocVerified(s, fetched)
    \/ \E id \in Senders : TgMessage(id, id \in BotIds, 0)
    \/ \E s \in InFlight(tgH), outcome \in {"ok", "failed", "undelivered"} :
          TgModelDone(s, outcome)

SpecChannels == Init /\ [][NextChannels]_vars

\* C25: each channel's ledger holds at most one record per sender id, also
\* when two first-contact events of one sender overlap at their awaits, and
\* an event of one channel changes no record (and no payment marker) of the
\* other channel.
C25_OneRecordPerId ==
    [][/\ \A i, j \in 1..Len(floDb_wa') :
             floDb_wa'[i].WaId = floDb_wa'[j].WaId => i = j
       /\ \A id \in DOMAIN floDb_tg' : floDb_tg'[id].id = id
       /\ last'.ch = "wa" => floDb_tg' = floDb_tg /\ paymentRequests' = paymentRequests
       /\ last'.ch = "tg" => floDb_wa' = floDb_wa
      ]_vars

\* a second message of a WhatsApp sender has arrived while the welcome of the
\* first was still being sent, the sender has one record, and a Telegram
\* event has just been handled while both ledgers hold a record
C25_Witness ==
    /\ Len(floDb_wa) = 1
    /\ \E s1, s2 \in InFlight(waH) :
          /\ s1.pc = "welcome"
          /\ s2.pc = "model"
          /\ s1.WaId = s2.WaId
    /\ last.ch = "tg"
    /\ Has(floDb_tg, last.id)

----------------------------------------------------------------------------
(* Properties of the token economy and of the payment markers (Spec) *)

\* the balance a Telegram sender has when an event of theirs arrives: the
\* middleware creates the record on first contact
Before_tg(id) == IF Has(floDb_tg, id) THEN floDb_tg[id].tokens ELSE TgInitialTokens

\* the results with which a prompt is refused
Refusals == {"refused_tokens", "refused_media"}

\* C1: the token balance of every user of either channel is never negative.
C1_TokensNonNegative ==
    /\ \A i \in 1..Len(floDb_wa) : floDb_wa[i].tokens >= 0
    /\ \A id \in DOMAIN floDb_tg : floDb_tg[id].tokens >= 0

\* C2: when the model call or the delivery of the reply fails after the
\* deduction, the step in which the handler ends gives the deducted tokens
\* back, on either channel.
C2_FailureRefunds ==
    [][/\ \A s \in InFlight(waH) :
             (s.pc = "model" /\ waH' = Take(waH, s) /\ last'.res = "failed")
                 => getUser_wa(floDb_wa', s.WaId).tokens
                        = getUser_wa(floDb_wa, s.WaId).tokens + s.cost
       /\ \A s \in InFlight(tgH) :
             (s.pc = "model" /\ tgH' = Take(tgH, s)
                  /\ last'.res \in {"failed", "undelivered"})
                 => floDb_tg'[s.id].tokens = floDb_tg[s.id].tokens + s.cost
      ]_vars

\* C3: no payment declaration of a user leads to more than one payment
\* credit.
C3_ConsumedAtMostOnce ==
    \A id \in Senders :
        \A k \in DOMAIN pay[id].credits : pay[id].credits[k] <= 1

\* C4: a user has a request marker if and only if the user has made a
\* payment declaration and no accepted proof has consumed the latest one.
C4_MarkerIffOutstanding ==
    \A id \in Senders :
        Has(paymentRequests, id)
            <=> (pay[id].made > 0 /\ pay[id].credits[pay[id].made] = 0)

\* C5: a proof upload whose verification result is invalid leaves the
\* markers as they are, the timestamp included, and a proof upload whose
\* verification result is valid removes the marker of the user.
C5_MarkerLifecycle ==
    [][/\ last'.res = "rejected" => paymentRequests' = paymentRequests
       /\ last'.res = "credited" => ~Has(paymentRequests', last'.id)
      ]_vars

\* a proof has just been rejected and the marker of the declaration made at
\* hour 0 is still in place
C5_Witness ==
    /\ last.res = "rejected"
    /\ Has(paymentRequests, last.id)
    /\ paymentRequests[last.id] = 0
    /\ pay[last.id].made = 1

\* C6: the step that accepts a prompt deducts 1 token for a text message and
\* 2 tokens per media item for a message with media, on either channel, and
\* a prompt with more than 5 media items is never accepted.
C6_PromptPrice ==
    [][/\ (last'.res = "calling" /\ last'.ch = "wa")
             => getUser_wa(floDb_wa, last'.id).tokens
                    - getUser_wa(floDb_wa', last'.id).tokens
                = (IF last'.ev = "text" THEN 1 ELSE 2 * last'.n)
       /\ (last'.res = "calling" /\ last'.ch = "tg")
             => Before_tg(last'.id) - floDb_tg'[last'.id].tokens
                = (IF last'.ev = "text" THEN 1 ELSE 2 * last'.n)
       /\ (last'.ev = "media" /\ last'.n > 5) => last'.res # "calling"
      ]_vars

\* C7 (as stated): when a prompt is refused, the handler that refuses it has
\* left the balance as it found it: it has granted nothing.
C7_RefusalKeepsBalance ==
    last.res \in Refusals => last.granted = 0

\* C7 (amended): the step that refuses a prompt, for an insufficient balance
\* or for more than 5 media items, changes no balance and starts no model
\* call; what the handler granted before it reached the refusal stays.
C7_RefusalSpendsNothing ==
    [][last'.res \in Refusals =>
          /\ last'.ch = "wa" =>
                /\ getUser_wa(floDb_wa', last'.id).tokens
                       = getUser_wa(floDb_wa, last'.id).tokens
                /\ \A s \in InFlight(waH') :
                       s.pc = "model" => CopiesIn(s, waH') <= CopiesIn(s, waH)
          /\ last'.ch = "tg" =>
                /\ Has(floDb_tg', last'.id)
                       => floDb_tg'[last'.id].tokens = Before_tg(last'.id)
                /\ tgH' = tgH
      ]_vars

\* a WhatsApp prompt with too many media items has been refused by a handler
\* that had granted an idle reward
C7_Witness ==
    last.res = "refused_media" /\ last.ch = "wa" /\ last.granted > 0

Arrived(H, H2) == \A s \in InFlight(H) : CopiesIn(s, H2) >= CopiesIn(s, H)

\* C14: the step that receives a message of an existing user, a command or
\* a prompt, and with it evaluates the idle reward where the channel has
\* one, leaves the time of the last activity (lastActivity on WhatsApp,
\* lastActive on Telegram) at the current time.
C14_ActivityFirst ==
    [][/\ \A id \in WaIds :
             (/\ ~isNewUser(floDb_wa, id)
              /\ last'.ch = "wa" /\ last'.id = id
              /\ Arrived(waH, waH'))
                 => getUser_wa(floDb_wa', id).lastActivity = now
       /\ \A id \in TgIds :
             (/\ Has(floDb_tg, id)
              /\ last'.ch = "tg" /\ last'.id = id
              /\ Arrived(tgH, tgH'))
                 => floDb_tg'[id].lastActive = now
      ]_vars

\* C15: the streak of every user is a natural number, and every step leaves
\* it unchanged, adds exactly 1 to it or sets it to 0.
C15_StreakSteps ==
    [][/\ \A i \in 1..Len(floDb_wa) :
             /\ floDb_wa'[i].streak \in Nat
             /\ floDb_wa'[i].streak
                    \in {floDb_wa[i].streak, floDb_wa[i].streak + 1, 0}
       /\ \A id \in DOMAIN floDb_tg :
             /\ floDb_tg'[id].streak \in Nat
             /\ floDb_tg'[id].streak
                    \in {floDb_tg[id].streak, floDb_tg[id].streak + 1, 0}
      ]_vars

\* a prompt on a new calendar day has just raised a streak of 1 to 2
C15_Witness ==
    /\ last.ch = "wa"
    /\ last.res = "calling"
    /\ \E i \in 1..Len(floDb_wa) :
          floDb_wa[i].streak = 2 /\ floDb_wa[i].streakDate = now

\* C16: the step that handles a /payments declaration leaves the user with
\* a marker that carries the time of this declaration, whether or not the
\* user had a marker, and the step that receives a proof takes the
\* timestamp of the marker the user has then for the verification.
C16_DeclarationOverwrites ==
    [][/\ last'.res = "declared" =>
             /\ Has(paymentRequests', last'.id)
             /\ paymentRequests'[last'.id] = now
       /\ last'.res = "fetching" =>
             \E s \in InFlight(tgH') :
                /\ CopiesIn(s, tgH') > CopiesIn(s, tgH)
                /\ s.id = last'.id
                /\ s.requestTimestamp = paymentRequests[last'.id]
      ]_vars

\* a proof uploaded after the second declaration waits for its verification
\* against the timestamp of that declaration, hour 25, while a proof
\* uploaded after the first one still waits with the timestamp of hour 0
C16_Witness ==
    /\ last.res = "fetching"
    /\ Has(paymentRequests, last.id)
    /\ paymentRequests[last.id] = 25
    /\ \E s \in InFlight(tgH) : s.requestTimestamp = 25 /\ s.declNo = 2
    /\ \E s \in InFlight(tgH) : s.requestTimestamp = 0 /\ s.declNo = 1

\* C20: the record a first contact creates has streak 0 and the fields
\* lastTokenReward, lastActivity and streakDate, all at the time of the
\* creation, with 100 tokens on WhatsApp and, on Telegram, 10 tokens (seen
\* when the first contact is a command, which spends nothing).
C20_CreationDefaults ==
    [][/\ \A id \in WaIds :
             (isNewUser(floDb_wa, id) /\ ~isNewUser(floDb_wa', id))
                 => LET u == getUser_wa(floDb_wa', id)
                    IN  /\ u.streak = 0
                        /\ u.tokens = 100
                        /\ u.lastTokenReward = now
                        /\ u.lastActivity = now
                        /\ u.streakDate = now
       /\ \A id \in TgIds :
             (~Has(floDb_tg, id) /\ Has(floDb_tg', id))
                 => LET u == floDb_tg'[id]
                    IN  /\ u.streak = 0
                        /\ last'.res \in {"info", "declared"} => u.tokens = 10
                        /\ {"lastTokenReward", "lastActivity", "streakDate"}
                               \subseteq DOMAIN u
                        /\ u.lastTokenReward = now
                        /\ u.lastActivity = now
                        /\ u.streakDate = now
      ]_vars

\* the results of a Telegram step that has read or updated the sender's record
TgRecordResults ==
    {"threw", "declared", "no_request", "fetching", "credited", "rejected",
     "refused_tokens", "calling", "failed"}

\* C21: whenever a command handler, the prompt handler or the payment credit
\* step reads or updates a user's record, a record for that sender id exists
\* in the ledger of that channel: no step dereferences a missing record
\* (reported as "threw"), for every event of every sender.
C21_RecordExists ==
    /\ last.res # "threw"
    /\ last.ch = "tg" /\ last.res \in TgRecordResults => Has(floDb_tg, last.id)
    /\ last.ch = "wa" => ~isNewUser(floDb_wa, last.id)

\* C23: when a prompt is handled more than 48 hours after the user's
\* previous handled message, the user's streak is 0 once the handler has
\* run its streak evaluation and gone on to the model call: the streak does
\* not continue across a gap of more than 48 hours.
C23_GapResetsStreak ==
    [][/\ \A i \in 1..Len(floDb_wa) :
             (/\ last'.ch = "wa"
              /\ last'.id = floDb_wa[i].WaId
              /\ last'.res = "calling"
              /\ now - floDb_wa[i].lastActivity > StreakBreakHours)
                 => floDb_wa'[i].streak = 0
       /\ \A id \in DOMAIN floDb_tg :
             (/\ last'.ch = "tg"
              /\ last'.id = id
              /\ last'.res = "calling"
              /\ now - floDb_tg[id].lastActive > StreakBreakHours)
                 => floDb_tg'[id].streak = 0
      ]_vars

\* C24: a document upload increases the sender's balance only if the
\* document is a PDF, the sender has a request marker when the upload
\* arrives, and the verification against that marker's timestamp returns
\* valid; the balance then increases by exactly 10.  Every other upload
\* (not a PDF, no marker, proof rejected, fetch error) changes no balance.
C24_CreditGated ==
    [][/\ \A id \in Senders, mime \in MimeTypes, doc \in Uploads :
             TgDocument(id, id \in BotIds, mime, doc) =>
                /\ \A k \in DOMAIN floDb_tg' : floDb_tg'[k].tokens = Before_tg(k)
                /\ tgH' # tgH =>
                      /\ mime = "application/pdf"
                      /\ Has(paymentRequests, id)
                      /\ \E s \in InFlight(tgH') :
                            /\ tgH' = Put(tgH, s)
                            /\ s.pc = "verify"
                            /\ s.id = id
                            /\ s.doc = doc
                            /\ s.requestTimestamp = paymentRequests[id]
       /\ \A s \in InFlight(tgH), fetched \in BOOLEAN :
             TgDocVerified(s, fetched) =>
                LET valid == /\ fetched
                             /\ verifyPaymentProof(s.doc, s.requestTimestamp).valid
                IN  \A k \in DOMAIN floDb_tg' :
                       floDb_tg'[k].tokens =
                          floDb_tg[k].tokens
                             + (IF k = s.id /\ valid THEN PaymentTokens ELSE 0)
      ]_vars

\* a first proof has just been credited: the balance is the initial 10 plus
\* 10, and a second upload of the same user is still being verified
C24_Witness ==
    /\ last.ch = "tg"
    /\ last.res = "credited"
    /\ floDb_tg[last.id].tokens = TgInitialTokens + PaymentTokens
    /\ \E s \in InFlight(tgH) : s.pc = "verify" /\ s.id = last.id

----------------------------------------------------------------------------
(* Properties of the idle reward (SpecReward) *)

\* C8: checkAndUpdateTokenRewards at time t on a record with tokens <= 4 and
\* at least 8 hours since lastTokenReward adds floor(hours / 8) * 10 to
\* tokens, sets lastTokenReward to t and returns the amount added; in every
\* other case it returns 0 and leaves the record as it was.
C8_IdleReward ==
    \A i \in DOMAIN rewardLog :
        LET e == rewardLog[i]
            hours == e.t - e.before.lastTokenReward
        IN  IF e.before.tokens <= 4 /\ hours >= 8
            THEN \E k \in 1..hours :
                    /\ 8 * k <= hours
                    /\ hours < 8 * (k + 1)
                    /\ e.tokensAwarded = 10 * k
                    /\ e.after = [e.before EXCEPT !.tokens = @ + 10 * k,
                                                  !.lastTokenReward = e.t]
            ELSE e.tokensAwarded = 0 /\ e.after = e.before

\* a record with 2 tokens, last rewarded 17 hours ago, has been evaluated
C8_Witness ==
    \E i \in DOMAIN rewardLog :
        /\ rewardLog[i].before.tokens = 2
        /\ rewardLog[i].t - rewardLog[i].before.lastTokenReward = 17
        /\ rewardLog[i].tokensAwarded = 20

\* C9: an evaluation at the same time as the evaluation before it awards 0
\* tokens and leaves the record unchanged, whether or not the evaluation
\* before it awarded tokens.
C9_NoDoubleCredit ==
    \A i \in DOMAIN rewardLog :
        (i > 1 /\ rewardLog[i].t = rewardLog[i - 1].t)
            => /\ rewardLog[i].tokensAwarded = 0
               /\ rewardLog[i].after = rewardLog[i].before
               /\ rewardLog[i].after = rewardLog[i - 1].after

\* two evaluations at the same time, the first of which awarded tokens
C9_Witness ==
    \E i \in DOMAIN rewardLog :
        /\ i > 1
        /\ rewardLog[i].t = rewardLog[i - 1].t
        /\ rewardLog[i - 1].tokensAwarded > 0
        /\ rewardLog[i].tokensAwarded = 0

============================================================================
